---------------------------- MODULE Spec2Model ----------------------------
(***************************************************************************)
(* Turn handling of the Sunshine Nursery chatbot "Sunny": the command-line *)
(* variant (src/My_chatbot.py) and the HTTP variant (src/app.py).          *)
(*                                                                         *)
(* A text is a sequence of symbols.  A character of user input is a        *)
(* one-character string; a fixed phrase of the source (a prefix, a title,  *)
(* a canned reply) is one symbol, since the code never looks inside it.    *)
(* "SUP2" stands for the character SUPERSCRIPT TWO, for which              *)
(* str.isdigit() is true and int() raises ValueError.  "\n" is a newline.  *)
(***************************************************************************)
EXTENDS Naturals, Sequences, FiniteSets, TLC

VARIABLES
    variant,    \* "cli" (My_chatbot.py) or "http" (app.py)
    history,    \* conversation_history: sequence of [user, bot]
    appended,   \* every turn ever passed to list.append, in order
    intent,     \* the branch of generate_response taken by the last call
    input,      \* user_input of the last call
    reply,      \* the text the last call returned
    prompt,     \* the prompt the last call sent to the model (<<>> if none)
    called,     \* whether the last call invoked model.generate_content
    told,       \* the story chosen by the last call (NoStory if none)
    raised,     \* whether the last call ended in its except clause
    steps,      \* number of calls of generate_response so far
    pc,         \* per request thread of the HTTP server: its position
    req,        \* per request thread: user_input of the request in flight
    resp,       \* per request thread: the bot text it is about to record
    seen,       \* per request thread: the history its prompt was built from
    served      \* per request thread: number of requests it has taken

vars == <<variant, history, appended, intent, input, reply, prompt, called,
          told, raised, steps, pc, req, resp, seen, served>>

-----------------------------------------------------------------------------
(* Bounds of the model *)

\* calls of generate_response in a behaviour of Spec
MaxSteps == 1

\* calls of generate_response in a behaviour of SpecWindow
MaxTurns == 11

\* requests each request thread serves in a behaviour of SpecRace
MaxRequests == 1

-----------------------------------------------------------------------------
(* Characters and strings *)

Digits == <<"0", "1", "2", "3", "4", "5", "6", "7", "8", "9">>

Upper == <<"A", "B", "C", "D", "E", "F", "G", "H", "I", "J", "K", "L", "M",
           "N", "O", "P", "Q", "R", "S", "T", "U", "V", "W", "X", "Y", "Z">>

LowerCase == <<"a", "b", "c", "d", "e", "f", "g", "h", "i", "j", "k", "l", "m",
               "n", "o", "p", "q", "r", "s", "t", "u", "v", "w", "x", "y", "z">>

Range(s) == {s[i] : i \in DOMAIN s}

\* one character of str.lower()
LowerChar(c) ==
    IF \E i \in DOMAIN Upper : Upper[i] = c
    THEN LowerCase[CHOOSE i \in DOMAIN Upper : Upper[i] = c]
    ELSE c

\* str.lower()
Lower(s) == [i \in DOMAIN s |-> LowerChar(s[i])]

\* `kw in s` for strings: kw occurs as a contiguous substring of s
Contains(s, kw) ==
    \E i \in 1..(Len(s) + 1) :
        /\ i + Len(kw) - 1 <= Len(s)
        /\ SubSeq(s, i, i + Len(kw) - 1) = kw

\* any(word in s for word in kws)
AnyIn(kws, s) == \E kw \in kws : Contains(s, kw)

IsSpace(c) == c \in {" ", "\n", "\t"}

\* str.split(): the maximal runs of non-whitespace characters, in order
RECURSIVE SplitFrom(_, _, _)
SplitFrom(s, i, cur) ==
    IF i > Len(s)
    THEN IF cur = <<>> THEN <<>> ELSE <<cur>>
    ELSE IF IsSpace(s[i])
         THEN (IF cur = <<>> THEN <<>> ELSE <<cur>>) \o SplitFrom(s, i + 1, <<>>)
         ELSE SplitFrom(s, i + 1, Append(cur, s[i]))

Split(s) == SplitFrom(s, 1, <<>>)

\* str.strip()
RECURSIVE LStrip(_)
LStrip(s) == IF s # <<>> /\ IsSpace(Head(s)) THEN LStrip(Tail(s)) ELSE s

RECURSIVE RStrip(_)
RStrip(s) ==
    IF s # <<>> /\ IsSpace(s[Len(s)]) THEN RStrip(SubSeq(s, 1, Len(s) - 1)) ELSE s

Strip(s) == RStrip(LStrip(s))

\* str.isdigit(): non-empty and every character has the digit property
IsDigit(w) == w # <<>> /\ \A i \in DOMAIN w : w[i] \in Range(Digits) \cup {"SUP2"}

\* int() accepts a token of decimal digits and raises ValueError otherwise
IntOk(w) == w # <<>> /\ \A i \in DOMAIN w : w[i] \in Range(Digits)

DigitVal(c) == (CHOOSE i \in DOMAIN Digits : Digits[i] = c) - 1

RECURSIVE IntOf(_)
IntOf(w) ==
    IF w = <<>> THEN 0 ELSE 10 * IntOf(SubSeq(w, 1, Len(w) - 1)) + DigitVal(w[Len(w)])

\* str() of a non-negative int
RECURSIVE StrOf(_)
StrOf(n) == IF n < 10 THEN <<Digits[n + 1]>> ELSE StrOf(n \div 10) \o <<Digits[(n % 10) + 1]>>

\* "\n".join(parts)
RECURSIVE JoinNL(_)
JoinNL(parts) ==
    IF parts = <<>> THEN <<>>
    ELSE IF Len(parts) = 1 THEN parts[1]
    ELSE parts[1] \o <<"\n">> \o JoinNL(Tail(parts))

\* the lines of a text: the pieces between its newlines, in order
Lines(s) ==
    LET cuts == {0, Len(s) + 1} \cup {i \in DOMAIN s : s[i] = "\n"}
        Cut(k) == CHOOSE c \in cuts : Cardinality({d \in cuts : d < c}) = k - 1
    IN  [k \in 1..(Cardinality(cuts) - 1) |-> SubSeq(s, Cut(k) + 1, Cut(k + 1) - 1)]

-----------------------------------------------------------------------------
(* Words users type *)

W_bye == <<"b", "y", "e">>
W_Goodbye == <<"G", "o", "o", "d", "b", "y", "e">>
W_goodbye == <<"g", "o", "o", "d", "b", "y", "e">>
W_exit == <<"e", "x", "i", "t">>
W_map == <<"m", "a", "p">>
W_location == <<"l", "o", "c", "a", "t", "i", "o", "n">>
W_math == <<"m", "a", "t", "h">>
W_calculate == <<"c", "a", "l", "c", "u", "l", "a", "t", "e">>
W_story == <<"s", "t", "o", "r", "y">>
W_tale == <<"t", "a", "l", "e">>
W_bedtime == <<"b", "e", "d", "t", "i", "m", "e">>
W_hello == <<"h", "e", "l", "l", "o">>
W_fees == <<"f", "e", "e", "s">>
W_times == <<"t", "i", "m", "e", "s">>
W_for == <<"f", "o", "r">>
W_max == <<"m", "a", "x">>
W_x == <<"x">>
W_X == <<"X">>
W_star == <<"*">>
W_0 == <<"0">>
W_2 == <<"2">>
W_3 == <<"3">>
W_4 == <<"4">>
W_5 == <<"5">>
W_07 == <<"0", "7">>
W_sup2 == <<"SUP2">>
W_3x4 == <<"3", "x", "4">>

\* the words of a message, separated by single spaces
RECURSIVE Say(_)
Say(ws) ==
    IF ws = <<>> THEN <<>>
    ELSE IF Len(ws) = 1 THEN ws[1]
    ELSE ws[1] \o <<" ">> \o Say(Tail(ws))

-----------------------------------------------------------------------------
(* The program's constants *)

\* self.max_history
max_history == 10

\* the keyword lists of generate_response
FarewellWords(v) == IF v = "cli" THEN {W_bye, W_exit} ELSE {W_bye, W_goodbye}
LocationWords == {W_map, W_location}
MathWords == {W_math, W_calculate}
StoryWords(v) == IF v = "cli" THEN {W_story, W_tale} ELSE {W_story, W_tale, W_bedtime}

\* self.stories
Stories(v) ==
    IF v = "cli"
    THEN << [title |-> "The Honest Rabbit", age |-> <<"4", "+">>,
             content |-> "Lily the rabbit found a lost necklace and returned it...",
             moral |-> "Honesty brings happiness"] >>
    ELSE << [title |-> "The Sharing Bear", age |-> <<"3", "+">>,
             content |-> "Benny the bear never shared his honey...",
             moral |-> "Sharing makes friendships stronger"],
            [title |-> "The Curious Kitten", age |-> <<"4", "+">>,
             content |-> "Milo the kitten explored too far and got lost...",
             moral |-> "Curiosity should be balanced with caution"] >>

\* the fixed replies
FarewellReply(v) ==
    IF v = "cli" THEN <<"Thank you for chatting with Sunshine Nursery!">>
    ELSE <<"Thank you for contacting Sunshine Nursery! Have a wonderful day!">>

\* common_qa["map"], built once by _generate_map_response
MapReply ==
    <<"We're at ", "56 Toman Bai Street, Nasr City, Cairo", ". Map: ",
      "https://www.google.com/maps/search/?api=1&query=",
      "56%20Toman%20Bai%20Street%2C%20Nasr%20City%2C%20Cairo">>

\* common_qa["math"]
MathPrefix == <<"Here's the answer: ">>

MathHint == MathPrefix \o <<"Try: 'What's 3 times 4?'">>

NoStoryReply(v) ==
    IF v = "cli" THEN <<"No stories available. Ask about our nursery programs!">>
    ELSE <<"No suitable stories found. Try asking about our nursery programs!">>

\* the marker _update_conversation gets in place of the story text
StoryMark(v) == IF v = "cli" THEN "Told story: " ELSE "Shared story: "

StoryInvite(v) ==
    IF v = "cli" THEN "Ask about nursery or say 'another story'!"
    ELSE "Want another story or ask about nursery?"

\* what the except clause of generate_response returns for exception text e
Fallback(v, e) ==
    IF v = "cli" THEN <<"I'm having trouble responding. Error: ", e>>
    ELSE <<"Let's try something else! Ask about our nursery programs.">>

\* str(e) of the ValueError int() raises
IntError == "invalid literal for int() with base 10"

-----------------------------------------------------------------------------
(* The handlers *)

\* a slip: the story keywords are tested before the farewell keywords
Classify_story_first(v, user_input) ==
    LET lower_input == Lower(user_input) IN
    IF AnyIn(StoryWords(v), lower_input) THEN "story"
    ELSE IF AnyIn(FarewellWords(v), lower_input) THEN "farewell"
    ELSE IF v = "http" /\ AnyIn(LocationWords, lower_input) THEN "location"
    ELSE IF v = "http" /\ AnyIn(MathWords, lower_input) THEN "arithmetic"
    ELSE "general"

\* the branch of generate_response that user_input takes
Classify(v, user_input) ==
    LET lower_input == Lower(user_input) IN
    IF AnyIn(FarewellWords(v), lower_input) THEN "farewell"
    ELSE IF v = "http" /\ AnyIn(LocationWords, lower_input) THEN "location"
    ELSE IF v = "http" /\ AnyIn(MathWords, lower_input) THEN "arithmetic"
    ELSE IF AnyIn(StoryWords(v), lower_input) THEN "story"
    ELSE "general"

\* [word for word in s.split() if word.isdigit()]
DigitTokens(s) == SelectSeq(Split(s), IsDigit)

\* '*' in query or 'x' in query
HasMarker(query) == Contains(query, <<"*">>) \/ Contains(query, <<"x">>)

\* _handle_math_query raises ValueError: int() of a token that isdigit() let through
MathRaises(query) ==
    /\ HasMarker(query)
    /\ \E i \in DOMAIN DigitTokens(query) : ~IntOk(DigitTokens(query)[i])

\* what _handle_math_query returns when it does not raise
handle_math_query(query) ==
    LET nums == [i \in DOMAIN DigitTokens(query) |-> IntOf(DigitTokens(query)[i])] IN
    IF HasMarker(query) /\ Len(nums) = 2
    THEN MathPrefix \o StrOf(nums[1]) \o <<" (times) ">> \o StrOf(nums[2])
                    \o <<" = ">> \o StrOf(nums[1] * nums[2])
    ELSE MathHint

\* age = next((int(word) for word in user_input.split() if word.isdigit()), None)
HasAge(user_input) == DigitTokens(user_input) # <<>>
AgeRaises(user_input) == HasAge(user_input) /\ ~IntOk(DigitTokens(user_input)[1])
Age(user_input) == IntOf(DigitTokens(user_input)[1])

\* `not age`: true of None and of 0
NotAge(user_input) == ~HasAge(user_input) \/ Age(user_input) = 0

\* int(s['age'][0])
MinAge(s) == IntOf(<<s.age[1]>>)

\* [s for s in self.stories if not age or int(s['age'][0]) <= age]
Matching(v, user_input) ==
    LET Keep(s) == NotAge(user_input) \/ MinAge(s) <= Age(user_input)
    IN  SelectSeq(Stories(v), Keep)

\* the formatted story a story request returns
StoryReply(v, s) ==
    <<"(book) ", s.title, " (Age ">> \o s.age \o
    <<")", "\n", "\n", s.content, "\n", "\n", "(sparkles) Moral: ", s.moral,
      "\n", "\n", StoryInvite(v)>>

\* a slip: the story text itself is recorded
StoryTurn_full_text(v, user_input, s) == [user |-> user_input, bot |-> <<s.title, s.content>>]

\* the turn a told story leaves in the history
StoryTurn(v, user_input, s) == [user |-> user_input, bot |-> <<StoryMark(v), s.title>>]

\* the prompt of a general question
BuildPrompt(hist, user_input) ==
    LET context == JoinNL([i \in DOMAIN hist |->
                       <<"User: ">> \o hist[i].user \o <<"\n", "Assistant: ">> \o hist[i].bot])
    IN  context \o <<"\n", "User: ">> \o user_input \o <<"\n", "Assistant:">>

\* a slip: list.pop(), which drops the newest turn
PopLast(hist) == SubSeq(hist, 1, Len(hist) - 1)

\* list.pop(0)
PopFirst(hist) == Tail(hist)

\* a slip: the history is trimmed to one turn fewer than max_history
update_conversation_off_by_one(hist, turn) ==
    LET a == Append(hist, turn) IN
    IF Len(a) >= max_history THEN PopFirst(a) ELSE a

\* _update_conversation, run without interruption
update_conversation(hist, turn) ==
    LET a == Append(hist, turn) IN
    IF Len(a) > max_history THEN PopFirst(a) ELSE a

-----------------------------------------------------------------------------
(* The model's text generation service *)

\* response.text of a successful call, before strip()
Answers == { <<"Hi!">>, <<" ", "We open at 8AM.", "\n">> }

\* str(e) of a failed call: generate_content raises, or response.text does
Failures == { "429 quota exceeded", "response.text: no valid part" }

-----------------------------------------------------------------------------
(* Messages *)

KeyWords == {W_bye, W_Goodbye, W_exit, W_location, W_math, W_story, W_bedtime}

\* one keyword, or two keywords in either order
KeywordMsgs == KeyWords \cup {Say(<<a, b>>) : a \in KeyWords, b \in KeyWords}

MathMsgs ==
    {Say(<<W_calculate, a, op, b>>) :
        a \in {W_3, W_07, W_sup2}, op \in {W_x, W_X, W_star, W_times}, b \in {W_4, W_sup2}}
    \cup {Say(<<W_calculate, W_3, W_x>>), Say(<<W_calculate, W_3, W_x, W_4, W_5>>),
          Say(<<W_math, W_3x4>>), Say(<<W_math, W_max, W_3, W_4>>),
          Say(<<W_math, W_3, W_4>>)}

StoryMsgs ==
    {Say(<<k, a>>) : k \in {W_story, W_bedtime},
                     a \in {W_0, W_2, W_3, W_4, W_5, W_07, W_sup2}}
    \cup {Say(<<W_tale, W_for, W_4>>), Say(<<W_story, W_3, W_5>>),
          Say(<<W_story, W_5, W_sup2>>), Say(<<W_tale, W_x, W_2>>)}

GeneralMsgs == {W_hello, Say(<<W_fees, W_for, W_3>>)}

Msgs == KeywordMsgs \cup MathMsgs \cup StoryMsgs \cup GeneralMsgs

\* the messages of SpecWindow: one of every kind of turn, a told story included
WindowMsgs(v) ==
    IF v = "cli"
    THEN {W_hello, W_bye, Say(<<W_story, W_2>>), Say(<<W_tale, W_4>>)}
    ELSE {W_hello, W_bye, W_map, Say(<<W_calculate, W_3, W_x, W_4>>),
          Say(<<W_story, W_2>>), Say(<<W_story, W_3>>)}

WindowAnswers == { <<" ", "We open at 8AM.", "\n">> }

\* the messages request threads receive in SpecRace
RaceMsgs == {W_hello, W_bye, Say(<<W_story, W_3>>)}

Variants == {"cli", "http"}

AllMsgs == Msgs \cup WindowMsgs("cli") \cup WindowMsgs("http") \cup RaceMsgs

\* the branch every message of the model takes, computed once
Routes == [v \in Variants |-> [m \in AllMsgs |-> Classify(v, m)]]

Route(v, m) == Routes[v][m]

-----------------------------------------------------------------------------
(* One call of generate_response, start to return *)

NoPrompt == <<>>
NoStory == <<>>

Threads == {1, 2}

Return(m, k, r, hist, log, p, c, t, x) ==
    /\ input' = m
    /\ intent' = k
    /\ reply' = r
    /\ history' = hist
    /\ appended' = log
    /\ steps' = steps + 1
    /\ prompt' = p
    /\ called' = c
    /\ told' = t
    /\ raised' = x
    /\ UNCHANGED <<variant, pc, req, resp, seen, served>>

\* a slip: the farewell is recorded as a turn
Farewell_recorded(m) ==
    /\ Route(variant, m) = "farewell"
    /\ LET turn == [user |-> m, bot |-> FarewellReply(variant)]
       IN  Return(m, "farewell", FarewellReply(variant),
                  update_conversation(history, turn), Append(appended, turn),
                  NoPrompt, FALSE, NoStory, FALSE)

Farewell(m) ==
    /\ Route(variant, m) = "farewell"
    /\ Return(m, "farewell", FarewellReply(variant), history, appended,
              NoPrompt, FALSE, NoStory, FALSE)

Location(m) ==
    /\ Route(variant, m) = "location"
    /\ Return(m, "location", MapReply, history, appended, NoPrompt, FALSE, NoStory,
              FALSE)

Arithmetic(m) ==
    /\ Route(variant, m) = "arithmetic"
    /\ Return(m, "arithmetic",
              IF MathRaises(m) THEN Fallback(variant, IntError) ELSE handle_math_query(m),
              history, appended, NoPrompt, FALSE, NoStory, MathRaises(m))

Story(m) ==
    /\ Route(variant, m) = "story"
    /\ IF AgeRaises(m)
       THEN Return(m, "story", Fallback(variant, IntError), history, appended,
                   NoPrompt, FALSE, NoStory, TRUE)
       ELSE IF Matching(variant, m) = <<>>
       THEN Return(m, "story", NoStoryReply(variant), history, appended,
                   NoPrompt, FALSE, NoStory, FALSE)
       ELSE \E i \in DOMAIN Matching(variant, m) :
              LET story == Matching(variant, m)[i]
                  turn == StoryTurn(variant, m, story)
              IN  Return(m, "story", StoryReply(variant, story),
                         update_conversation(history, turn), Append(appended, turn),
                         NoPrompt, FALSE, <<story>>, FALSE)

GeneralOk(m, answers) ==
    /\ Route(variant, m) = "general"
    /\ \E text \in answers :
         LET response_text == Strip(text)
             turn == [user |-> m, bot |-> response_text]
         IN  Return(m, "general", response_text,
                    update_conversation(history, turn), Append(appended, turn),
                    BuildPrompt(history, m), TRUE, NoStory, FALSE)

\* a slip: the failed turn is recorded with the fallback as its answer
GeneralFail_recorded(m) ==
    /\ Route(variant, m) = "general"
    /\ \E e \in Failures :
         LET turn == [user |-> m, bot |-> Fallback(variant, e)]
         IN  Return(m, "general", Fallback(variant, e),
                    update_conversation(history, turn), Append(appended, turn),
                    BuildPrompt(history, m), TRUE, NoStory, TRUE)

GeneralFail(m) ==
    /\ Route(variant, m) = "general"
    /\ \E e \in Failures :
         Return(m, "general", Fallback(variant, e), history, appended,
                BuildPrompt(history, m), TRUE, NoStory, TRUE)

-----------------------------------------------------------------------------
(* Specifications of the sequential program *)

\* the history h general questions leave behind
Seed(h) ==
    [i \in 1..h |-> [user |-> IF i % 2 = 1 THEN W_hello ELSE W_fees, bot |-> <<"Hi!">>]]

\* an empty history, a short one, a full one and one that the next turn fills
SeedLengths == {0, 1, 2, max_history - 1, max_history}

InitCall ==
    /\ intent = "none"
    /\ input = <<>>
    /\ reply = <<>>
    /\ prompt = NoPrompt
    /\ called = FALSE
    /\ told = NoStory
    /\ raised = FALSE
    /\ steps = 0
    /\ pc = [t \in Threads |-> "idle"]
    /\ req = [t \in Threads |-> <<>>]
    /\ resp = [t \in Threads |-> <<>>]
    /\ seen = [t \in Threads |-> <<>>]
    /\ served = [t \in Threads |-> 0]

\* either program, after some general questions
Init ==
    /\ variant \in {"cli", "http"}
    /\ \E h \in SeedLengths : history = Seed(h) /\ appended = Seed(h)
    /\ InitCall

Next ==
    \/ steps < MaxSteps /\ \E m \in Msgs : Farewell(m)
    \/ steps < MaxSteps /\ \E m \in Msgs : Location(m)
    \/ steps < MaxSteps /\ \E m \in Msgs : Arithmetic(m)
    \/ steps < MaxSteps /\ \E m \in Msgs : Story(m)
    \/ steps < MaxSteps /\ \E m \in Msgs : GeneralOk(m, Answers)
    \/ steps < MaxSteps /\ \E m \in Msgs : GeneralFail(m)

Spec == Init /\ [][Next]_vars

\* either program, as constructed
InitWindow ==
    /\ variant \in {"cli", "http"}
    /\ history = <<>>
    /\ appended = <<>>
    /\ InitCall

NextWindow ==
    \/ steps < MaxTurns /\ \E m \in WindowMsgs(variant) : Farewell(m)
    \/ steps < MaxTurns /\ \E m \in WindowMsgs(variant) : Location(m)
    \/ steps < MaxTurns /\ \E m \in WindowMsgs(variant) : Arithmetic(m)
    \/ steps < MaxTurns /\ \E m \in WindowMsgs(variant) : Story(m)
    \/ steps < MaxTurns /\ \E m \in WindowMsgs(variant) : GeneralOk(m, WindowAnswers)
    \/ steps < MaxTurns /\ \E m \in WindowMsgs(variant) : GeneralFail(m)

SpecWindow == InitWindow /\ [][NextWindow]_vars

-----------------------------------------------------------------------------
(* The HTTP server: request threads share the one chatbot, with no lock *)

Goto(t, where) == pc' = [pc EXCEPT ![t] = where]

UnchangedCall == UNCHANGED <<variant, intent, input, reply, prompt, called, told,
                             raised, steps>>

\* chat() takes a request and generate_response routes it; a fixed reply
\* (farewell, map, arithmetic) returns at once
Receive(t, m) ==
    /\ pc[t] = "idle"
    /\ served[t] < MaxRequests
    /\ served' = [served EXCEPT ![t] = @ + 1]
    /\ req' = [req EXCEPT ![t] = m]
    /\ Goto(t, CASE Route(variant, m) = "general" -> "prompt"
                 [] Route(variant, m) = "story" -> "story"
                 [] OTHER -> "idle")
    /\ resp' = [resp EXCEPT ![t] = <<>>]
    /\ seen' = [seen EXCEPT ![t] = <<>>]
    /\ UNCHANGED <<history, appended>>
    /\ UnchangedCall

\* the prompt is built from the history as it is now
ReadHistory(t) ==
    /\ pc[t] = "prompt"
    /\ seen' = [seen EXCEPT ![t] = history]
    /\ Goto(t, "call")
    /\ UNCHANGED <<history, appended, req, resp, served>>
    /\ UnchangedCall

\* generate_content answers
ServiceOk(t) ==
    /\ pc[t] = "call"
    /\ \E text \in WindowAnswers : resp' = [resp EXCEPT ![t] = Strip(text)]
    /\ Goto(t, "append")
    /\ UNCHANGED <<history, appended, req, seen, served>>
    /\ UnchangedCall

\* generate_content fails: the except clause returns the fallback
ServiceFail(t) ==
    /\ pc[t] = "call"
    /\ Goto(t, "idle")
    /\ UNCHANGED <<history, appended, req, resp, seen, served>>
    /\ UnchangedCall

\* _handle_story_request up to its call of _update_conversation
ChooseStory(t) ==
    /\ pc[t] = "story"
    /\ IF AgeRaises(req[t]) \/ Matching(variant, req[t]) = <<>>
       THEN Goto(t, "idle") /\ UNCHANGED resp
       ELSE \E i \in DOMAIN Matching(variant, req[t]) :
              /\ resp' = [resp EXCEPT ![t] =
                             StoryTurn(variant, req[t], Matching(variant, req[t])[i]).bot]
              /\ Goto(t, "append")
    /\ UNCHANGED <<history, appended, req, seen, served>>
    /\ UnchangedCall

\* _update_conversation: self.conversation_history.append(...)
AppendTurn(t) ==
    /\ pc[t] = "append"
    /\ history' = Append(history, [user |-> req[t], bot |-> resp[t]])
    /\ appended' = Append(appended, [user |-> req[t], bot |-> resp[t]])
    /\ Goto(t, "check")
    /\ UNCHANGED <<req, resp, seen, served>>
    /\ UnchangedCall

\* _update_conversation: if len(self.conversation_history) > self.max_history
CheckLength(t) ==
    /\ pc[t] = "check"
    /\ Goto(t, IF Len(history) > max_history THEN "pop" ELSE "idle")
    /\ UNCHANGED <<history, appended, req, resp, seen, served>>
    /\ UnchangedCall

\* _update_conversation: self.conversation_history.pop(0)
PopOldest(t) ==
    /\ pc[t] = "pop"
    /\ history' = IF history = <<>> THEN history ELSE PopFirst(history)
    /\ Goto(t, "idle")
    /\ UNCHANGED <<appended, req, resp, seen, served>>
    /\ UnchangedCall

\* the server, after some general questions answered one at a time
InitRace ==
    /\ variant = "http"
    /\ \E h \in 0..max_history : history = Seed(h) /\ appended = Seed(h)
    /\ InitCall

NextRace ==
    \/ \E t \in Threads, m \in RaceMsgs : Receive(t, m)
    \/ \E t \in Threads : ReadHistory(t)
    \/ \E t \in Threads : ServiceOk(t)
    \/ \E t \in Threads : ServiceFail(t)
    \/ \E t \in Threads : ChooseStory(t)
    \/ \E t \in Threads : AppendTurn(t)
    \/ \E t \in Threads : CheckLength(t)
    \/ \E t \in Threads : PopOldest(t)

SpecRace == InitRace /\ [][NextRace]_vars

-----------------------------------------------------------------------------
(* Properties *)

\* the last n elements of s
LastN(s, n) == IF Len(s) <= n THEN s ELSE SubSeq(s, Len(s) - n + 1, Len(s))

\* a is the tail end of b
IsSuffix(a, b) == Len(a) <= Len(b) /\ a = SubSeq(b, Len(b) - Len(a) + 1, Len(b))

Min(a, b) == IF a <= b THEN a ELSE b

\* a call of generate_response happens in this step
Called == steps' # steps

\* C1: starting from an empty history, after any sequence of completed turns
\* the history holds at most 10 turns, and once more than 10 turns have been
\* appended it is exactly the last 10 of them, in their original order.
C1_HistoryWindow ==
    /\ Len(history) <= 10
    /\ Len(appended) > 10 => history = SubSeq(appended, Len(appended) - 9, Len(appended))

\* eleven turns were appended, the last of them a story told by the CLI program
C1_Witness ==
    /\ variant = "cli"
    /\ Len(appended) > 10
    /\ told # NoStory
    /\ history[1] # history[2]

\* C2: when the text generation service fails on a general question, the call
\* returns the fallback (HTTP: the generic sentence; CLI: the fixed prefix, then
\* the error text) and the history is what it was before the call.
C2_FailureLeavesHistory ==
    [][ (Called /\ intent' = "general" /\ raised') =>
          /\ history' = history
          /\ appended' = appended
          /\ IF variant = "cli"
             THEN /\ Len(reply') = 2
                  /\ reply'[1] = "I'm having trouble responding. Error: "
                  /\ reply'[2] \in Failures
             ELSE reply' = <<"Let's try something else! Ask about our nursery programs.">>
      ]_vars

\* the CLI program, its history full, answered a failed call with the error text
C2_Witness ==
    /\ variant = "cli"
    /\ intent = "general"
    /\ raised
    /\ called
    /\ Len(history) = max_history
    /\ reply[2] = "429 quota exceeded"

\* C3: a call routed to the farewell, location or arithmetic branch leaves the
\* history as it was and does not invoke the text generation service.
C3_FixedRepliesLeaveHistory ==
    [][ (Called /\ intent' \in {"farewell", "location", "arithmetic"}) =>
          /\ history' = history
          /\ appended' = appended
          /\ ~called'
          /\ prompt' = NoPrompt
      ]_vars

\* an arithmetic request, here one whose number does not parse, met a full history
C3_Witness ==
    /\ intent = "arithmetic"
    /\ raised
    /\ Len(history) = max_history

\* C4: when the first all-digit token of a story request is the age a, every
\* story the call returns has minAge <= a, and if no story of the catalog has
\* minAge <= a the call returns the "no story" message and leaves the history.
C4_StoryAgeFilter ==
    [][ (Called /\ intent' = "story" /\ HasAge(input') /\ ~AgeRaises(input')) =>
          LET a == Age(input') IN
          /\ told' # NoStory => MinAge(told'[1]) <= a
          /\ (\A i \in DOMAIN Stories(variant) : MinAge(Stories(variant)[i]) > a) =>
                /\ reply' = NoStoryReply(variant)
                /\ told' = NoStory
                /\ history' = history
      ]_vars

\* C5: the branch taken is the first, in the order farewell, location,
\* arithmetic, story, general, whose keyword occurs in the lowercased message
\* (location and arithmetic in the HTTP program only), whatever the history
\* and whatever later keywords the message also holds.
C5_IntentPriority ==
    intent # "none" =>
        LET low == Lower(input)
            F == AnyIn(FarewellWords(variant), low)
            L == variant = "http" /\ AnyIn(LocationWords, low)
            M == variant = "http" /\ AnyIn(MathWords, low)
            S == AnyIn(StoryWords(variant), low)
        IN  /\ F => intent = "farewell" /\ reply = FarewellReply(variant)
            /\ (~F /\ L) => intent = "location" /\ reply = MapReply
            /\ (~F /\ ~L /\ M) => intent = "arithmetic" /\ ~called /\ told = NoStory
            /\ (~F /\ ~L /\ ~M /\ S) => intent = "story" /\ ~called
            /\ (~F /\ ~L /\ ~M /\ ~S) => intent = "general" /\ called

\* a message with a capitalised goodbye keyword and a story keyword got the farewell
C5_Witness ==
    /\ intent = "farewell"
    /\ AnyIn(StoryWords(variant), Lower(input))
    /\ input # Lower(input)
    /\ history # <<>>

\* C6: an arithmetic request with a multiplication marker ('*', 'x' or 'X') and
\* exactly two all-digit tokens a, b gets "<prefix>a (times) b = a*b"; every
\* other arithmetic request gets the hint.
C6_Arithmetic ==
    intent = "arithmetic" =>
        LET marker == Contains(input, <<"*">>) \/ Contains(Lower(input), <<"x">>)
            toks == DigitTokens(input)
        IN  IF marker /\ Len(toks) = 2 /\ IntOk(toks[1]) /\ IntOk(toks[2])
            THEN reply = <<"Here's the answer: ">> \o StrOf(IntOf(toks[1])) \o <<" (times) ">>
                         \o StrOf(IntOf(toks[2])) \o <<" = ">>
                         \o StrOf(IntOf(toks[1]) * IntOf(toks[2]))
            ELSE reply = <<"Here's the answer: ", "Try: 'What's 3 times 4?'">>

\* the "User:" and "Assistant:" lines of the turns of a history, in order
RECURSIVE TurnLines(_)
TurnLines(hist) ==
    IF hist = <<>> THEN <<>>
    ELSE << <<"User: ">> \o Head(hist).user, <<"Assistant: ">> \o Head(hist).bot >>
         \o TurnLines(Tail(hist))

\* C7: the prompt of a general question asked with a history of k turns is k
\* pairs of "User:"/"Assistant:" lines in order, then "User: M" and
\* "Assistant:", and no other line.
C7_PromptLines ==
    [][ (Called /\ called') =>
          Lines(prompt') = TurnLines(history) \o << <<"User: ">> \o input', <<"Assistant:">> >>
      ]_vars

\* C8 as stated: in both programs a told story appends the one turn
\* {user: the message, bot: "Told story: <title>"}.
C8_ToldStoryInBoth ==
    [][ (Called /\ told' # NoStory) =>
          appended' = Append(appended,
                             [user |-> input', bot |-> <<"Told story: ", told'[1].title>>])
      ]_vars

\* C8, amended: a story request with a story to tell appends exactly one turn,
\* {user: the message, bot: marker then the title of the story in the reply},
\* the marker being "Told story: " in the CLI program and "Shared story: " in
\* the HTTP program; no story text is ever in the history.
C8_StoryTurnRecorded ==
    [][ (Called /\ intent' = "story" /\ ~AgeRaises(input')) =>
          LET m == input'
              candidates == {i \in DOMAIN Stories(variant) :
                                ~HasAge(m) \/ MinAge(Stories(variant)[i]) <= Age(m)}
              marker == IF variant = "cli" THEN "Told story: " ELSE "Shared story: "
          IN  /\ candidates # {} => told' # NoStory
              /\ told' # NoStory =>
                    LET turn == [user |-> m, bot |-> <<marker, told'[1].title>>] IN
                    /\ appended' = Append(appended, turn)
                    /\ history' = LastN(Append(history, turn), 10)
                    /\ reply'[2] = told'[1].title
              /\ \A i \in DOMAIN history', j \in DOMAIN Stories(variant) :
                    Stories(variant)[j].content \notin Range(history'[i].bot)
      ]_vars

\* the HTTP program told a story with its history full
C8_Witness ==
    /\ variant = "http"
    /\ told # NoStory
    /\ Len(history) = max_history
    /\ history[Len(history)].bot = <<"Shared story: ", told[1].title>>

\* C9: with concurrent requests on the shared history, the history holds at
\* most 10 turns in every state, so no prompt is built from more than 10.
C9_BoundedAtAllTimes ==
    /\ Len(history) <= 10
    /\ \A t \in Threads : Len(seen[t]) <= 10

\* no request is in flight
Quiescent == \A t \in Threads : pc[t] = "idle"

\* every thread's last request was answered and recorded
AllRecorded == \A t \in Threads : resp[t] # <<>>

\* what eviction of the oldest alone leaves of the turns appended
FifoResult == LastN(appended, max_history)

\* C10 as stated: when two concurrent answered requests leave a history that
\* differs from what FIFO eviction alone leaves, the history lacks the turn of
\* one of the two requests.
C10_RequestTurnLost ==
    (Quiescent /\ AllRecorded /\ history # FifoResult) =>
        \E t \in Threads : [user |-> req[t], bot |-> resp[t]] \notin Range(history)

\* C10, amended: concurrent answered requests can leave a history that differs
\* from what FIFO eviction alone leaves, and it differs by being shorter: the
\* history is always the tail end of the turns in the order they were appended,
\* at rest it holds at most 10 and at least min(k, 9) of the k turns
\* appended, and the turns of the requests just answered are among them.
C10_OlderTurnLost ==
    /\ IsSuffix(history, appended)
    /\ Quiescent =>
          /\ Len(history) <= 10
          /\ Len(history) >= Min(Len(appended), 9)
          /\ \A t \in Threads :
                resp[t] # <<>> => [user |-> req[t], bot |-> resp[t]] \in Range(history)

\* two concurrent answered requests left 9 turns where FIFO eviction leaves 10
C10_Witness ==
    /\ Quiescent
    /\ AllRecorded
    /\ history # FifoResult
    /\ Len(history) < Len(FifoResult)

=============================================================================
